---- MODULE Spec2Model ----
(***************************************************************************)
(* Hospital-proposing Gale-Shapley matcher (src/src/matcher.py) and the    *)
(* matching verifier (src/src/verifier.py).                                *)
(* Python lists are functions over 0..n-1, so indices are the source's.    *)
(***************************************************************************)
EXTENDS Integers, Sequences, FiniteSets, TLC

\* Largest instance size explored.
MaxN == 3

\* matcher.py's "unmatched" sentinel and Python's None (verifier.py).
Unmatched == -1
None == -2

\* in_scan_order is a history variable: every proposer so far was the one
\* the scan of lines 69-72 stops at.
VARIABLES n, hospital_prefs, student_prefs,
          hospital_match, student_match, next_proposal, proposal_count,
          pc, lines, matching, verdict,
          in_scan_order

vars == <<n, hospital_prefs, student_prefs, hospital_match, student_match,
          next_proposal, proposal_count, pc, lines, matching, verdict,
          in_scan_order>>

Idx(k) == 0 .. (k - 1)

\* A preference list accepted by read_input and valid per the precondition:
\* a permutation of 0..k-1.
Perms(k) == {f \in [Idx(k) -> Idx(k)] : \A a, b \in Idx(k) : a # b => f[a] # f[b]}

Profiles(k) == [Idx(k) -> Perms(k)]

(***************************************************************************)
(* matcher.py: gale_shapley                                                *)
(***************************************************************************)

\* ranking = [0] * n; for rank, hospital in enumerate(prefs): ranking[hospital] = rank
RECURSIVE BuildRanking(_, _, _, _)
BuildRanking(prefs, k, rank, ranking) ==
    IF rank = k THEN ranking
    ELSE BuildRanking(prefs, k, rank + 1, [ranking EXCEPT ![prefs[rank]] = rank])

RankingMatrix(k, prefs) ==
    [a \in Idx(k) |-> BuildRanking(prefs[a], k, 0, [b \in Idx(k) |-> 0])]

student_ranking == RankingMatrix(n, student_prefs)

\* The hospitals the scan of lines 69-72 may stop at.
Eligible(k, hm, np, h) == hm[h] = Unmatched /\ np[h] < k

\* for h in range(n): if ...: free_hospital = h; break   (else -1)
RECURSIVE ScanFree(_, _, _, _)
ScanFree(k, hm, np, h) ==
    IF h = k THEN -1
    ELSE IF Eligible(k, hm, np, h) THEN h
    ELSE ScanFree(k, hm, np, h + 1)

free_hospital == ScanFree(n, hospital_match, next_proposal, 0)

\* Mutant of Prefers: the comparison of line 92 reversed.
PrefersWorse(ranking, s, new, current) == ranking[s][new] > ranking[s][current]

\* Mutant of Prefers: the student never leaves its first hospital.
PrefersNever(ranking, s, new, current) == FALSE


\* Mutant of Prefers: the student always takes the newcomer.
PrefersAlways(ranking, s, new, current) == TRUE


\* Mutant of Prefers: the hospital indices are compared, not their ranks.
PrefersByIndex(ranking, s, new, current) == new < current

\* Line 92: the student prefers the proposing hospital to its current one.
Prefers(ranking, s, new, current) == ranking[s][new] < ranking[s][current]

\* Mutant of NextStudent: the list is walked from its least preferred end.
NextStudentFromEnd(hp, np, h) == hp[h][Cardinality(DOMAIN hp) - 1 - np[h]]

\* Line 79: the next student on h's list.
NextStudent(hp, np, h) == hp[h][np[h]]

\* Mutant of Advance: the cursor is left where it was.
AdvanceCountOnly(st, h) == [st EXCEPT !.proposal_count = @ + 1]


\* Mutant of Advance: the cursor moves two places.
AdvanceSkips(st, h) ==
    [st EXCEPT !.next_proposal[h] = @ + 2, !.proposal_count = @ + 1]

\* Lines 80-81: advance h's cursor and count the proposal.
Advance(st, h) ==
    [st EXCEPT !.next_proposal[h] = @ + 1, !.proposal_count = @ + 1]


\* Mutant of AcceptUpdate: line 86 missing, the student's side is not recorded.
AcceptOneWay(st, h, student) == [st EXCEPT !.hospital_match[h] = student]

\* Mutant of AcceptUpdate: line 85 missing, the hospital's side is not recorded.
AcceptForgetsHospital(st, h, student) == [st EXCEPT !.student_match[student] = h]

\* Lines 85-86: record the pairing both ways.
AcceptUpdate(st, h, student) ==
    [st EXCEPT !.hospital_match[h] = student, !.student_match[student] = h]

\* Mutant of DisplaceUpdate: line 94 missing, the old hospital keeps the student.
DisplaceKeepsOld(st, h, student, current_hospital) ==
    [st EXCEPT !.hospital_match[h] = student, !.student_match[student] = h]


\* Mutant of DisplaceUpdate: the displaced hospital starts its list again.
DisplaceResetsCursor(st, h, student, current_hospital) ==
    [st EXCEPT !.hospital_match =
                   [@ EXCEPT ![current_hospital] = Unmatched, ![h] = student],
               !.student_match[student] = h,
               !.next_proposal[current_hospital] = 0]

\* Mutant of DisplaceUpdate: the student is cleared instead of re-assigned.
DisplaceDropsStudent(st, h, student, current_hospital) ==
    [st EXCEPT !.hospital_match =
                   [@ EXCEPT ![current_hospital] = Unmatched, ![h] = student],
               !.student_match[student] = Unmatched]

\* Lines 94-96: the current hospital is unmatched, the new pairing recorded.
DisplaceUpdate(st, h, student, current_hospital) ==
    [st EXCEPT !.hospital_match =
                   [@ EXCEPT ![current_hospital] = Unmatched, ![h] = student],
               !.student_match[student] = h]

\* One pass through the loop body (lines 78-97) with hospital h proposing.
ProposeStep(k, hp, ranking, st, h) ==
    LET student == NextStudent(hp, st.next_proposal, h)
        st1 == Advance(st, h)
        current_hospital == st1.student_match[student]
    IN  IF st1.student_match[student] = Unmatched
        THEN AcceptUpdate(st1, h, student)
        ELSE IF Prefers(ranking, student, h, current_hospital)
        THEN DisplaceUpdate(st1, h, student, current_hospital)
        ELSE st1

EngineState ==
    [hospital_match |-> hospital_match, student_match |-> student_match,
     next_proposal |-> next_proposal, proposal_count |-> proposal_count]

\* Lines 45-63: the state gale_shapley starts its loop in.
InitialEngine(k) ==
    [hospital_match |-> [h \in Idx(k) |-> Unmatched],
     student_match |-> [s \in Idx(k) |-> Unmatched],
     next_proposal |-> [h \in Idx(k) |-> 0],
     proposal_count |-> 0]

\* The whole function: the loop run to its break, returning hospital_match.
RECURSIVE RunLoop(_, _, _, _)
RunLoop(k, hp, ranking, st) ==
    LET h == ScanFree(k, st.hospital_match, st.next_proposal, 0)
    IN  IF h = -1 THEN st.hospital_match
        ELSE RunLoop(k, hp, ranking, ProposeStep(k, hp, ranking, st, h))

gale_shapley(k, hp, sp) == RunLoop(k, hp, RankingMatrix(k, sp), InitialEngine(k))

(***************************************************************************)
(* verifier.py                                                             *)
(***************************************************************************)

\* Nothing printed yet.
NoOutput == [kind |-> "none"]

\* matcher.py main, lines 121-123: one line "hospital+1 student+1" per hospital.
\* A line is the pair of integers its two fields parse to.
FormatOutput(k, hm) == [i \in 1 .. k |-> <<(i - 1) + 1, hm[i - 1] + 1>>]

\* Lines 55-68: parse each line, reject an index out of range, store the pair.
RECURSIVE ReadLines(_, _, _, _)
ReadLines(file, k, i, m) ==
    IF i > Len(file) THEN [ok |-> TRUE, matching |-> m]
    ELSE LET hospital == file[i][1] - 1
             student == file[i][2] - 1
         IN  IF hospital < 0 \/ hospital >= k
             THEN [ok |-> FALSE,
                   error |-> [kind |-> "ERROR", what |-> "Invalid hospital index",
                              index |-> hospital + 1]]
             ELSE IF student < 0 \/ student >= k
             THEN [ok |-> FALSE,
                   error |-> [kind |-> "ERROR", what |-> "Invalid student index",
                              index |-> student + 1]]
             ELSE ReadLines(file, k, i + 1, [m EXCEPT ![hospital] = student])

\* Lines 50-70.
read_matching(file, k) ==
    IF Len(file) # k
    THEN [ok |-> FALSE,
          error |-> [kind |-> "ERROR", what |-> "Expected matching pairs",
                     index |-> Len(file)]]
    ELSE ReadLines(file, k, 1, [h \in Idx(k) |-> None])

\* Mutant of FirstUnmatched: "if not matching[h]", which also catches student 0.
RECURSIVE FirstUnmatchedFalsy(_, _, _)
FirstUnmatchedFalsy(k, m, h) ==
    IF h = k THEN -1
    ELSE IF m[h] = None \/ m[h] = 0 THEN h
    ELSE FirstUnmatchedFalsy(k, m, h + 1)

\* Mutant of FirstUnmatched: the hospitals are scanned from the highest index.
RECURSIVE LastUnmatchedBelow(_, _)
LastUnmatchedBelow(m, h) ==
    IF h < 0 THEN -1
    ELSE IF m[h] = None THEN h
    ELSE LastUnmatchedBelow(m, h - 1)

LastUnmatched(k, m, h) == LastUnmatchedBelow(m, k - 1)

\* Lines 78-80: the first hospital without a match, -1 when there is none.
RECURSIVE FirstUnmatched(_, _, _)
FirstUnmatched(k, m, h) ==
    IF h = k THEN -1
    ELSE IF m[h] = None THEN h
    ELSE FirstUnmatched(k, m, h + 1)


\* Mutant of ScanDuplicates: the two hospitals of the message change places.
RECURSIVE ScanDuplicatesSwapped(_, _, _, _)
ScanDuplicatesSwapped(k, m, h, smt) ==
    IF h = k THEN [dup |-> FALSE, student_matched_to |-> smt]
    ELSE LET s == m[h]
         IN  IF s \in DOMAIN smt
             THEN [dup |-> TRUE,
                   msg |-> [kind |-> "INVALID", defect |-> "student matched twice",
                            student |-> s + 1, first |-> h + 1,
                            second |-> smt[s] + 1]]
             ELSE ScanDuplicatesSwapped(k, m, h + 1,
                      [x \in DOMAIN smt \cup {s} |-> IF x = s THEN h ELSE smt[x]])

\* Mutant of ScanDuplicates: the membership test of line 86 is missing, a
\* second claim on a student overwrites the first.
RECURSIVE ScanDuplicatesNever(_, _, _, _)
ScanDuplicatesNever(k, m, h, smt) ==
    IF h = k THEN [dup |-> FALSE, student_matched_to |-> smt]
    ELSE ScanDuplicatesNever(k, m, h + 1,
             [x \in DOMAIN smt \cup {m[h]} |-> IF x = m[h] THEN h ELSE smt[x]])

\* Lines 83-88: student_matched_to is a dict, modelled as a function on its keys.
RECURSIVE ScanDuplicates(_, _, _, _)
ScanDuplicates(k, m, h, smt) ==
    IF h = k THEN [dup |-> FALSE, student_matched_to |-> smt]
    ELSE LET s == m[h]
         IN  IF s \in DOMAIN smt
             THEN [dup |-> TRUE,
                   msg |-> [kind |-> "INVALID", defect |-> "student matched twice",
                            student |-> s + 1, first |-> smt[s] + 1,
                            second |-> h + 1]]
             ELSE ScanDuplicates(k, m, h + 1,
                      [x \in DOMAIN smt \cup {s} |-> IF x = s THEN h ELSE smt[x]])

\* Lines 73-99.
check_validity(k, m) ==
    LET u == FirstUnmatched(k, m, 0)
    IN  IF u # -1
        THEN [valid |-> FALSE,
              msg |-> [kind |-> "INVALID", defect |-> "hospital not matched",
                       hospital |-> u + 1]]
        ELSE LET d == ScanDuplicates(k, m, 0, [x \in {} |-> 0])
             IN  IF d.dup THEN [valid |-> FALSE, msg |-> d.msg]
                 ELSE IF Cardinality(DOMAIN d.student_matched_to) # k
                 THEN [valid |-> FALSE,
                       msg |-> [kind |-> "INVALID", defect |-> "students not matched",
                                students |-> {s + 1 : s \in Idx(k) \
                                                 DOMAIN d.student_matched_to}]]
                 ELSE [valid |-> TRUE, msg |-> NoOutput]

\* Lines 107-110: student_match = [None] * n; student_match[matching[h]] = h.
RECURSIVE ReverseMatch(_, _, _, _)
ReverseMatch(k, m, h, sm) ==
    IF h = k THEN sm
    ELSE ReverseMatch(k, m, h + 1, [sm EXCEPT ![m[h]] = h])

\* Mutant of BothPrefer: the student's side (line 143) is not asked.
OnlyHospitalPrefers(hr, sr, h, s, current_student, current_hospital) ==
    hr[h][s] < hr[h][current_student]

\* Lines 140 and 143: h and s each rank the other above their current match.
BothPrefer(hr, sr, h, s, current_student, current_hospital) ==
    /\ hr[h][s] < hr[h][current_student]
    /\ sr[s][h] < sr[s][current_hospital]

\* Mutant of ScanBlocking: the loops nested the other way round.
RECURSIVE ScanBlockingStudentsOuter(_, _, _, _, _, _, _)
ScanBlockingStudentsOuter(k, m, sm, hr, sr, h, s) ==
    IF s = k THEN [stable |-> TRUE, msg |-> NoOutput]
    ELSE IF h = k THEN ScanBlockingStudentsOuter(k, m, sm, hr, sr, 0, s + 1)
    ELSE IF m[h] # s /\ BothPrefer(hr, sr, h, s, m[h], sm[s])
    THEN [stable |-> FALSE,
          msg |-> [kind |-> "UNSTABLE", hospital |-> h + 1, student |-> s + 1]]
    ELSE ScanBlockingStudentsOuter(k, m, sm, hr, sr, h + 1, s)

\* Lines 130-146: the double loop, hospitals outside and students inside.
RECURSIVE ScanBlocking(_, _, _, _, _, _, _)
ScanBlocking(k, m, sm, hr, sr, h, s) ==
    IF h = k THEN [stable |-> TRUE, msg |-> NoOutput]
    ELSE IF s = k THEN ScanBlocking(k, m, sm, hr, sr, h + 1, 0)
    ELSE LET current_student == m[h]
             current_hospital == sm[s]
         IN  IF current_student = s
             THEN ScanBlocking(k, m, sm, hr, sr, h, s + 1)
             ELSE IF BothPrefer(hr, sr, h, s, current_student, current_hospital)
             THEN [stable |-> FALSE,
                   msg |-> [kind |-> "UNSTABLE", hospital |-> h + 1,
                            student |-> s + 1]]
             ELSE ScanBlocking(k, m, sm, hr, sr, h, s + 1)

\* Lines 102-148.
check_stability(k, hp, sp, m) ==
    ScanBlocking(k, m, ReverseMatch(k, m, 0, [s \in Idx(k) |-> None]),
                 RankingMatrix(k, hp), RankingMatrix(k, sp), 0, 0)

Init ==
    /\ n \in 1 .. MaxN
    /\ hospital_prefs \in Profiles(n)
    /\ student_prefs \in Profiles(n)
    /\ hospital_match = InitialEngine(n).hospital_match
    /\ student_match = InitialEngine(n).student_match
    /\ next_proposal = InitialEngine(n).next_proposal
    /\ proposal_count = 0
    /\ pc = "loop"
    /\ lines = <<>>
    /\ matching = <<>>
    /\ verdict = NoOutput
    /\ in_scan_order = TRUE

Apply(h) ==
    LET st == ProposeStep(n, hospital_prefs, student_ranking, EngineState, h)
    IN  /\ hospital_match' = st.hospital_match
        /\ student_match' = st.student_match
        /\ next_proposal' = st.next_proposal
        /\ proposal_count' = st.proposal_count
        /\ in_scan_order' = (in_scan_order /\ h = free_hospital)
        /\ UNCHANGED <<n, hospital_prefs, student_prefs, pc, lines, matching, verdict>>

\* The student proposed to by h in the current state.
Target(h) == NextStudent(hospital_prefs, next_proposal, h)

\* Lines 84-86: the student is unmatched and tentatively accepts.
Accept ==
    /\ pc = "loop"
    /\ free_hospital # -1
    /\ student_match[Target(free_hospital)] = Unmatched
    /\ Apply(free_hospital)

\* Lines 92-96: the student leaves its current hospital for the proposer.
Displace ==
    /\ pc = "loop"
    /\ free_hospital # -1
    /\ student_match[Target(free_hospital)] # Unmatched
    /\ Prefers(student_ranking, Target(free_hospital), free_hospital,
               student_match[Target(free_hospital)])
    /\ Apply(free_hospital)

\* Line 97: the student rejects the proposal.
Reject ==
    /\ pc = "loop"
    /\ free_hospital # -1
    /\ student_match[Target(free_hospital)] # Unmatched
    /\ ~Prefers(student_ranking, Target(free_hospital), free_hospital,
                student_match[Target(free_hospital)])
    /\ Apply(free_hospital)

\* Lines 75-76 and 99: no free hospital is left; return hospital_match.
LoopExit ==
    /\ pc = "loop"
    /\ free_hospital = -1
    /\ pc' = "done"
    /\ UNCHANGED <<n, hospital_prefs, student_prefs, hospital_match,
                   student_match, next_proposal, proposal_count, lines, matching,
                   verdict, in_scan_order>>

\* gale_shapley alone, from its call to its return.  The interpreter always
\* runs the next statement, so an enabled loop step is eventually taken.
NextEngine == Accept \/ Displace \/ Reject \/ LoopExit

SpecFair == Init /\ [][NextEngine]_vars /\ WF_vars(NextEngine)

Engine == <<hospital_match, student_match, next_proposal, proposal_count,
            in_scan_order>>
Inputs == <<n, hospital_prefs, student_prefs>>

\* matcher.py main, lines 120-123: print the matching; the printed lines are
\* the matching file handed to verifier.py.
WriteOutput ==
    /\ pc = "done"
    /\ lines' = FormatOutput(n, hospital_match)
    /\ pc' = "v_start"
    /\ UNCHANGED <<Inputs, Engine, matching, verdict>>

\* verifier.py main, line 168 (and the ValueError handler, lines 188-190).
ReadMatching ==
    /\ pc = "v_start"
    /\ LET r == read_matching(lines, n)
       IN  IF r.ok
           THEN /\ matching' = r.matching
                /\ verdict' = verdict
                /\ pc' = "v_read"
           ELSE /\ matching' = matching
                /\ verdict' = r.error
                /\ pc' = "v_done"
    /\ UNCHANGED <<Inputs, Engine, lines>>

\* Mutant of CheckValidity: the stability check follows whatever the result.
CheckValidityIgnored ==
    /\ pc = "v_read"
    /\ pc' = "v_valid"
    /\ UNCHANGED <<n, hospital_prefs, student_prefs, hospital_match,
                   student_match, next_proposal, proposal_count, in_scan_order,
                   lines, matching, verdict>>

\* verifier.py main, lines 171-175.
CheckValidity ==
    /\ pc = "v_read"
    /\ LET v == check_validity(n, matching)
       IN  IF v.valid
           THEN /\ verdict' = verdict
                /\ pc' = "v_valid"
           ELSE /\ verdict' = v.msg
                /\ pc' = "v_done"
    /\ UNCHANGED <<Inputs, Engine, lines, matching>>


\* Mutant of CheckStability: the reverse mapping of lines 107-110 is written
\* into the matching itself.
CheckStabilityInPlace ==
    /\ pc = "v_valid"
    /\ LET r == check_stability(n, hospital_prefs, student_prefs, matching)
       IN  verdict' = IF r.stable THEN [kind |-> "VALID STABLE"] ELSE r.msg
    /\ matching' = ReverseMatch(n, matching, 0, matching)
    /\ pc' = "v_done"
    /\ UNCHANGED <<Inputs, Engine, lines>>

\* verifier.py main, lines 178-183.
CheckStability ==
    /\ pc = "v_valid"
    /\ LET r == check_stability(n, hospital_prefs, student_prefs, matching)
       IN  verdict' = IF r.stable THEN [kind |-> "VALID STABLE"] ELSE r.msg
    /\ pc' = "v_done"
    /\ UNCHANGED <<Inputs, Engine, lines, matching>>

Verify == ReadMatching \/ CheckValidity \/ CheckStability

Next == Accept \/ Displace \/ Reject \/ LoopExit \/ WriteOutput \/ Verify

Spec == Init /\ [][Next]_vars


(***************************************************************************)
(* gale_shapley with the proposer chosen freely among the eligible ones.   *)
(***************************************************************************)

ProposeAny ==
    /\ pc = "loop"
    /\ \E h \in Idx(n) :
          /\ Eligible(n, hospital_match, next_proposal, h)
          /\ Apply(h)

NextAny == ProposeAny \/ LoopExit

SpecAny == Init /\ [][NextAny]_vars

(***************************************************************************)
(* verifier.py run on an arbitrary matching file.                          *)
(***************************************************************************)

\* Every agent of a side holds the same list.
UniformProfiles(k) == {[a \in Idx(k) |-> p] : p \in Perms(k)}

\* Matching files: n or n-1 lines, hospital fields 0..n and student fields
\* 1..n+1, so each column has one value read_matching rejects.
FileLines(k) == (0 .. k) \X (1 .. (k + 1))
Files(k) == [1 .. k -> FileLines(k)] \cup [1 .. (k - 1) -> FileLines(k)]

EngineIdle ==
    /\ hospital_match = InitialEngine(n).hospital_match
    /\ student_match = InitialEngine(n).student_match
    /\ next_proposal = InitialEngine(n).next_proposal
    /\ proposal_count = 0
    /\ in_scan_order = TRUE

InitVerify ==
    /\ n \in 1 .. MaxN
    /\ hospital_prefs \in UniformProfiles(n)
    /\ student_prefs \in UniformProfiles(n)
    /\ EngineIdle
    /\ pc = "v_start"
    /\ lines \in Files(n)
    /\ matching = <<>>
    /\ verdict = NoOutput

SpecVerify == InitVerify /\ [][Verify]_vars

(***************************************************************************)
(* check_stability on every valid matching of every instance: main after   *)
(* check_validity has returned valid.                                      *)
(***************************************************************************)

InitStability ==
    /\ n \in 1 .. MaxN
    /\ hospital_prefs \in Profiles(n)
    /\ student_prefs \in Profiles(n)
    /\ EngineIdle
    /\ pc = "v_valid"
    /\ matching \in Perms(n)
    /\ lines = FormatOutput(n, matching)
    /\ verdict = NoOutput

SpecStability == InitStability /\ [][CheckStability]_vars

(***************************************************************************)
(* Properties                                                              *)
(***************************************************************************)

\* Position of b in a preference list (0 is the most preferred).
Rank(list, b) == CHOOSE r \in DOMAIN list : list[r] = b

\* m maps 0..k-1 one-to-one onto 0..k-1.
IsBijection(k, m) ==
    /\ m \in [Idx(k) -> Idx(k)]
    /\ \A s \in Idx(k) : Cardinality({h \in Idx(k) : m[h] = s}) = 1

\* The hospital holding student s in the bijection m.
Holder(k, m, s) == CHOOSE h \in Idx(k) : m[h] = s

\* (h, s) is a blocking pair of the bijection m.
Blocking(k, hp, sp, m, h, s) ==
    /\ m[h] # s
    /\ Rank(sp[s], h) < Rank(sp[s], Holder(k, m, s))
    /\ Rank(hp[h], s) < Rank(hp[h], m[h])

IsStable(k, hp, sp, m) ==
    /\ IsBijection(k, m)
    /\ \A h, s \in Idx(k) : ~Blocking(k, hp, sp, m, h, s)

Returned == pc \notin {"loop"}

\* C1: the pairing gale_shapley returns is a bijection on 0..n-1: no entry is
\* -1 and every student is the match of exactly one hospital.
C1_PerfectMatching ==
    Returned =>
        /\ \A h \in Idx(n) : hospital_match[h] # Unmatched
        /\ IsBijection(n, hospital_match)

\* A returned pairing of a size-3 instance in which a student was displaced.
C1_Witness ==
    /\ pc = "done"
    /\ n = 3
    /\ proposal_count > n
    /\ IsBijection(n, hospital_match)

\* The round-trip instance of the specification.
RoundTripProposers ==
    (0 :> (0 :> 0 @@ 1 :> 1 @@ 2 :> 2) @@ 1 :> (0 :> 1 @@ 1 :> 0 @@ 2 :> 2)
       @@ 2 :> (0 :> 0 @@ 1 :> 1 @@ 2 :> 2))
RoundTripReceivers ==
    (0 :> (0 :> 1 @@ 1 :> 0 @@ 2 :> 2) @@ 1 :> (0 :> 0 @@ 1 :> 1 @@ 2 :> 2)
       @@ 2 :> (0 :> 0 @@ 1 :> 1 @@ 2 :> 2))

\* C2: the verifier, run on the lines the matcher prints, always ends with
\* VALID STABLE.
C2_EngineOutputStable ==
    /\ pc = "v_done" => verdict = [kind |-> "VALID STABLE"]
    /\ pc \in {"v_read", "v_valid", "v_done"} => matching = hospital_match

\* The round-trip instance has been verified as VALID STABLE.
C2_Witness ==
    /\ pc = "v_done"
    /\ n = 3
    /\ hospital_prefs = RoundTripProposers
    /\ student_prefs = RoundTripReceivers
    /\ verdict = [kind |-> "VALID STABLE"]

\* C3: the main loop terminates and never makes more than n*n proposals.
C3_TerminatesWithinNSquared ==
    /\ <>(pc = "done")
    /\ [](proposal_count <= n * n)

\* A finished run of a size-3 instance that took more than 2n proposals.
C3_Witness ==
    /\ pc = "done"
    /\ n = 3
    /\ proposal_count > 2 * n

\* read_matching returned a matching.
ReadOk == DOMAIN matching = Idx(n)

\* C4: the verifier reports exactly one of INVALID, UNSTABLE and VALID STABLE
\* for a pairing whose entries are None or in 0..n-1, and INVALID exactly when
\* the pairing is not a bijection.
C4_ThreeVerdicts ==
    (pc = "v_done" /\ ReadOk) =>
        /\ matching \in [Idx(n) -> Idx(n) \cup {None}]
        /\ verdict.kind \in {"INVALID", "UNSTABLE", "VALID STABLE"}
        /\ verdict.kind = "INVALID" <=> ~IsBijection(n, matching)

\* A size-3 pairing with every hospital assigned, two of them to one student,
\* reported INVALID.
C4_Witness ==
    /\ pc = "v_done"
    /\ ReadOk
    /\ n = 3
    /\ matching \in [Idx(n) -> Idx(n)]
    /\ ~IsBijection(n, matching)
    /\ verdict.kind = "INVALID"

\* Some hospital h and student s, each assigned elsewhere, rank each other
\* above what the pairing m gives them.
WouldBlock(k, hp, sp, m) ==
    \E h, s, h2 \in Idx(k) :
        /\ m[h] \notin {None, s}
        /\ m[h2] = s
        /\ Rank(hp[h], s) < Rank(hp[h], m[h])
        /\ Rank(sp[s], h) < Rank(sp[s], h2)

\* C5: check_stability runs only after check_validity returned valid, and an
\* invalid pairing is reported INVALID, never UNSTABLE, whatever pair of it
\* would block.
C5_ValidityFirst ==
    /\ pc = "v_valid" => (ReadOk /\ check_validity(n, matching).valid)
    /\ verdict.kind = "UNSTABLE" => (ReadOk /\ IsBijection(n, matching))
    /\ (pc = "v_done" /\ ReadOk /\ ~IsBijection(n, matching)
          /\ WouldBlock(n, hospital_prefs, student_prefs, matching))
       => verdict.kind = "INVALID"

\* An invalid pairing with a would-be blocking pair, reported INVALID.
C5_Witness ==
    /\ pc = "v_done"
    /\ ReadOk
    /\ ~IsBijection(n, matching)
    /\ WouldBlock(n, hospital_prefs, student_prefs, matching)
    /\ verdict.kind = "INVALID"

\* C6: on a valid pairing check_stability returns stable if and only if no
\* pair not matched to each other ranks each other above their matches.
C6_StableIffNoBlockingPair ==
    pc = "v_done" =>
        /\ verdict.kind \in {"UNSTABLE", "VALID STABLE"}
        /\ verdict = [kind |-> "VALID STABLE"]
              <=> IsStable(n, hospital_prefs, student_prefs, matching)

\* A size-3 bijection with a blocking pair, reported UNSTABLE.
C6_Witness ==
    /\ pc = "v_done"
    /\ n = 3
    /\ ~IsStable(n, hospital_prefs, student_prefs, matching)
    /\ verdict.kind = "UNSTABLE"

\* The blocking pairs of the bijection held in matching.
BlockingPairs ==
    {p \in Idx(n) \X Idx(n) :
        Blocking(n, hospital_prefs, student_prefs, matching, p[1], p[2])}

\* The first of them, hospital index first and student index second.
FirstBlockingPair ==
    CHOOSE p \in BlockingPairs :
        \A q \in BlockingPairs : p[1] < q[1] \/ (p[1] = q[1] /\ p[2] <= q[2])

\* C7: the pair check_stability reports is the first blocking pair, hospital
\* index ascending outside and student index ascending inside.
C7_FirstBlockingPairReported ==
    (pc = "v_done" /\ BlockingPairs # {}) =>
        verdict = [kind |-> "UNSTABLE", hospital |-> FirstBlockingPair[1] + 1,
                   student |-> FirstBlockingPair[2] + 1]

\* n = 2, pairing {0:0, 1:1}, both (0,1) and (1,0) block: hospital 0 with
\* student 1 is reported (printed 1-indexed).
C7_Witness ==
    /\ pc = "v_done"
    /\ n = 2
    /\ matching = (0 :> 0 @@ 1 :> 1)
    /\ BlockingPairs = {<<0, 1>>, <<1, 0>>}
    /\ verdict = [kind |-> "UNSTABLE", hospital |-> 1, student |-> 2]

\* The stable matchings of the instance.
StableMatchings ==
    {m \in Perms(n) : IsStable(n, hospital_prefs, student_prefs, m)}

\* C8: no hospital ranks its partner in any stable matching above the student
\* gale_shapley gives it.
C8_ProposerOptimal ==
    pc = "done" =>
        \A m \in StableMatchings : \A h \in Idx(n) :
            Rank(hospital_prefs[h], hospital_match[h])
                <= Rank(hospital_prefs[h], m[h])

\* A returned pairing of an instance that has another stable matching.
C8_Witness ==
    /\ pc = "done"
    /\ n = 3
    /\ hospital_match \in StableMatchings
    /\ Cardinality(StableMatchings) > 1

\* C9: whichever eligible hospital proposes at each iteration, the pairing
\* returned is the one the lowest-index scan returns.
C9_OrderIndependent ==
    pc = "done" =>
        hospital_match = gale_shapley(n, hospital_prefs, student_prefs)

\* A finished run in which some proposer was not the lowest eligible one.
C9_Witness ==
    /\ pc = "done"
    /\ n = 3
    /\ ~in_scan_order
    /\ proposal_count > n

\* The hospitals the pairing leaves unassigned.
Unassigned == {h \in Idx(n) : matching[h] = None}

\* C10: a pairing with an unassigned hospital is reported INVALID naming the
\* lowest-indexed unassigned hospital, duplicates or not.
C10_UnmatchedProposerReported ==
    (pc = "v_done" /\ ReadOk /\ Unassigned # {}) =>
        verdict = [kind |-> "INVALID", defect |-> "hospital not matched",
                   hospital |-> (CHOOSE h \in Unassigned :
                                    \A g \in Unassigned : h <= g) + 1]

\* A pairing with an unassigned hospital and two hospitals sharing a student.
C10_Witness ==
    /\ pc = "v_done"
    /\ ReadOk
    /\ Unassigned # {}
    /\ \E g, h \in Idx(n) : g # h /\ matching[g] = matching[h] /\ matching[g] # None
    /\ verdict.kind = "INVALID"
    /\ verdict.defect = "hospital not matched"

\* The hospitals whose student is already held by a lower-indexed hospital.
Colliding == {h \in Idx(n) : \E g \in Idx(n) : g < h /\ matching[g] = matching[h]}

\* The lowest-indexed of them.
FirstColliding == CHOOSE h \in Colliding : \A g \in Colliding : h <= g

\* The lowest-indexed hospital holding the student h collides on.
FirstClaimant(h) ==
    CHOOSE g \in Idx(n) :
        /\ matching[g] = matching[h]
        /\ \A f \in Idx(n) : matching[f] = matching[h] => g <= f

\* C11: with every hospital assigned and two hospitals on one student, the
\* verdict is INVALID naming that student, the hospital that claimed it first
\* in ascending index order and the later hospital colliding with it.
C11_DuplicateReceiverReported ==
    (pc = "v_done" /\ ReadOk /\ Unassigned = {} /\ Colliding # {}) =>
        verdict = [kind |-> "INVALID", defect |-> "student matched twice",
                   student |-> matching[FirstColliding] + 1,
                   first |-> FirstClaimant(FirstColliding) + 1,
                   second |-> FirstColliding + 1]

\* The pairing {0:1, 1:1}: student 1 with hospitals 0 and 1, printed 1-indexed.
C11_Witness ==
    /\ pc = "v_done"
    /\ n = 2
    /\ ReadOk
    /\ matching = (0 :> 1 @@ 1 :> 1)
    /\ verdict = [kind |-> "INVALID", defect |-> "student matched twice",
                  student |-> 2, first |-> 1, second |-> 2]

\* Every hospital has a student in 0..n-1 and no two share one.
AssignedInjective ==
    /\ ReadOk
    /\ \A h \in Idx(n) : matching[h] \in Idx(n)
    /\ \A g, h \in Idx(n) : g # h => matching[g] # matching[h]

\* C12: a pairing with every hospital assigned and no student shared covers
\* every student, and the verdict "Students ... are not matched to any
\* hospital" is never printed.
C12_DefensiveCheckUnreachable ==
    /\ (pc \in {"v_valid", "v_done"} /\ AssignedInjective) =>
          /\ \A s \in Idx(n) : \E h \in Idx(n) : matching[h] = s
          /\ verdict.kind # "INVALID"
    /\ "defect" \in DOMAIN verdict => verdict.defect # "students not matched"

\* A size-3 pairing, assigned and injective, that check_validity has passed.
C12_Witness ==
    /\ pc = "v_valid"
    /\ n = 3
    /\ AssignedInjective
    /\ check_validity(n, matching).valid

VerifierFrame ==
    pc \in {"v_read", "v_valid"} =>
        /\ n' = n
        /\ hospital_prefs' = hospital_prefs
        /\ student_prefs' = student_prefs
        /\ lines' = lines
        /\ matching' = matching

\* C13: the steps of main that call check_validity and check_stability leave
\* n, both preference tables, the matching file and the parsed matching as
\* they were.
C13_InputsUnmodified == [][VerifierFrame]_vars

\* A size-3 pairing reported UNSTABLE that is still what read_matching
\* returned for the file.
C13_Witness ==
    /\ pc = "v_done"
    /\ n = 3
    /\ ReadOk
    /\ verdict.kind = "UNSTABLE"
    /\ matching = read_matching(lines, n).matching

\* The hospitals that may propose: unmatched, with students left on the list.
CanPropose == {h \in Idx(n) : hospital_match[h] = Unmatched /\ next_proposal[h] < n}

\* The loop is about to run its body.
Proposing == pc = "loop" /\ CanPropose # {}

\* The hospital the scan stops at and the student it proposes to.
Proposer == CHOOSE h \in CanPropose : \A g \in CanPropose : h <= g
Proposed == hospital_prefs[Proposer][next_proposal[Proposer]]

\* The student proposed to is matched and does not rank the proposer above
\* its current hospital.
RejectCase ==
    /\ Proposing
    /\ student_match[Proposed] # Unmatched
    /\ ~(Rank(student_prefs[Proposed], Proposer)
           < Rank(student_prefs[Proposed], student_match[Proposed]))

\* The student proposed to is matched and ranks the proposer above its
\* current hospital.
DisplaceCase ==
    /\ Proposing
    /\ student_match[Proposed] # Unmatched
    /\ Rank(student_prefs[Proposed], Proposer)
         < Rank(student_prefs[Proposed], student_match[Proposed])

RejectFrame ==
    RejectCase =>
        /\ student_match' = student_match
        /\ hospital_match' = hospital_match
        /\ hospital_match'[Proposer] = Unmatched
        /\ next_proposal' = [next_proposal EXCEPT ![Proposer] = @ + 1]
        /\ proposal_count' = proposal_count + 1
        /\ UNCHANGED <<n, hospital_prefs, student_prefs, pc>>

\* C15: a rejected proposal changes nothing but the proposer's cursor, which
\* advances by one, and the proposal count; the proposer stays unmatched.
C15_RejectionFrame == [][RejectFrame]_vars

\* A size-3 run about to have a proposal rejected.
C15_Witness == RejectCase /\ n = 3

DisplaceEffect ==
    DisplaceCase =>
        LET old == student_match[Proposed]
        IN  /\ hospital_match' = [hospital_match EXCEPT ![old] = Unmatched,
                                                        ![Proposer] = Proposed]
            /\ student_match' = [student_match EXCEPT ![Proposed] = Proposer]
            /\ next_proposal'[old] = next_proposal[old]
            /\ next_proposal' = [next_proposal EXCEPT ![Proposer] = @ + 1]

\* C16: a displacement unmatches the displaced hospital, matches the proposer
\* and the student both ways, keeps the displaced hospital's cursor and
\* leaves every other match as it was.
C16_DisplacementEffect == [][DisplaceEffect]_vars

\* A size-3 run about to displace a hospital that has used part of its list.
C16_Witness ==
    /\ DisplaceCase
    /\ n = 3
    /\ next_proposal[student_match[Proposed]] > 1

RECURSIVE SumTo(_, _)
SumTo(f, k) == IF k = 0 THEN 0 ELSE f[k - 1] + SumTo(f, k - 1)

\* Cursors stay within the list, count the proposals made, and a matched
\* hospital holds the student just before its cursor.
CursorInv ==
    /\ \A h \in Idx(n) : next_proposal[h] \in 0 .. n
    /\ proposal_count = SumTo(next_proposal, n)
    /\ \A h \in Idx(n) :
          hospital_match[h] # Unmatched =>
              /\ next_proposal[h] >= 1
              /\ hospital_match[h] = hospital_prefs[h][next_proposal[h] - 1]

\* A step moves at most one cursor, forward by one each proposal, and a
\* hospital that gains a student gains the one its cursor pointed at.
CursorStep ==
    /\ \A h \in Idx(n) :
          /\ next_proposal'[h] = next_proposal[h]
                \/ next_proposal'[h] = next_proposal[h] + 1
          /\ (hospital_match'[h] # hospital_match[h]
                /\ hospital_match'[h] # Unmatched) =>
                 /\ next_proposal'[h] = next_proposal[h] + 1
                 /\ hospital_match'[h] = hospital_prefs[h][next_proposal[h]]
    /\ proposal_count' - proposal_count
          = Cardinality({h \in Idx(n) : next_proposal'[h] # next_proposal[h]})
    /\ proposal_count' - proposal_count \in {0, 1}

\* C17: each cursor rises by exactly one per proposal of its hospital and
\* never falls, so a hospital proposes down its own list, once per student.
C17_CursorMonotone == [](CursorInv) /\ [][CursorStep]_vars

\* A finished size-3 run in which a hospital proposed to every student.
C17_Witness ==
    /\ pc = "done"
    /\ n = 3
    /\ \E h \in Idx(n) : next_proposal[h] = n

\* C18: at the head of every iteration and at exit, hospital_match[h] = s
\* exactly when student_match[s] = h; no student is held by two hospitals.
C18_MutualInverses ==
    /\ \A h, s \in Idx(n) : hospital_match[h] = s <=> student_match[s] = h
    /\ \A h \in Idx(n) : hospital_match[h] \in Idx(n) \cup {Unmatched}
    /\ \A s \in Idx(n) : student_match[s] \in Idx(n) \cup {Unmatched}
    /\ \A g, h \in Idx(n) :
          (g # h /\ hospital_match[g] # Unmatched) =>
              hospital_match[g] # hospital_match[h]

\* A loop head of a size-3 run with two pairs formed and a hospital that
\* has lost its student.
C18_Witness ==
    /\ pc = "loop"
    /\ n = 3
    /\ Cardinality({h \in Idx(n) : hospital_match[h] # Unmatched}) = 2
    /\ \E h \in Idx(n) : hospital_match[h] = Unmatched /\ next_proposal[h] > 0

\* C19: at the loop head an unmatched hospital has cursor < n, so the list
\* access of line 79 is in range, and the loop exits only with every
\* hospital matched.
C19_UnmatchedHasCandidates ==
    /\ pc = "loop" =>
          \A h \in Idx(n) : hospital_match[h] = Unmatched => next_proposal[h] < n
    /\ Proposing => next_proposal[Proposer] \in DOMAIN hospital_prefs[Proposer]
    /\ (pc = "loop" /\ ~Proposing) =>
          \A h \in Idx(n) : hospital_match[h] # Unmatched
    /\ pc = "done" => \A h \in Idx(n) : hospital_match[h] # Unmatched

\* A loop head of a size-3 run where an unmatched hospital is down to the
\* last student of its list.
C19_Witness ==
    /\ pc = "loop"
    /\ n = 3
    /\ \E h \in Idx(n) : hospital_match[h] = Unmatched /\ next_proposal[h] = n - 1

StudentTradesUp ==
    \A s \in Idx(n) :
        student_match[s] # Unmatched =>
            /\ student_match'[s] # Unmatched
            /\ student_match'[s] # student_match[s] =>
                   Rank(student_prefs[s], student_match'[s])
                       < Rank(student_prefs[s], student_match[s])

\* C20: a matched student is never unmatched again, and each change of its
\* hospital is to one it ranks strictly better.
C20_ReceiverImproves == [][StudentTradesUp]_vars

\* Hospital 0, first to propose and accepted, has since lost its first
\* choice to another hospital.
C20_Witness ==
    /\ pc = "loop"
    /\ n = 3
    /\ hospital_match[0] = Unmatched
    /\ next_proposal[0] = 1
    /\ student_match[hospital_prefs[0][0]] \notin {Unmatched, 0}

\* The students h has already proposed to: those before its cursor.
ProposedTo(h) == {hospital_prefs[h][i] : i \in 0 .. (next_proposal[h] - 1)}

\* C21: at the head of every iteration, each student a hospital has already
\* proposed to is matched to a hospital the student ranks at least as well
\* as that hospital (possibly the hospital itself).
C21_ProposedReceiversHoldBetter ==
    \A h \in Idx(n) : \A s \in ProposedTo(h) :
        /\ student_match[s] # Unmatched
        /\ Rank(student_prefs[s], student_match[s]) <= Rank(student_prefs[s], h)

\* A loop head of a size-3 run where an unmatched hospital has proposed to
\* two students, each holding a hospital it ranks above that one.
C21_Witness ==
    /\ pc = "loop"
    /\ n = 3
    /\ \E h \in Idx(n) :
          /\ hospital_match[h] = Unmatched
          /\ next_proposal[h] = 2
          /\ \A s \in ProposedTo(h) :
                /\ student_match[s] \notin {Unmatched, h}
                /\ Rank(student_prefs[s], student_match[s])
                     < Rank(student_prefs[s], h)

====
